---- MODULE Spec2Model ----
(***************************************************************************)
(* A model of djangae.contrib.uniquetool (models.py): the UniqueAction     *)
(* record and its capped ActionLog collection, the check/repair and clean  *)
(* map handlers over the unique-marker store, and the pipelines that chain *)
(* the map phase to the callback that marks the action "done".             *)
(***************************************************************************)
EXTENDS Integers, Sequences, FiniteSets, TLC

\* ------------------------------------------------------------------ bounds
MaxRuns == 2        \* handler invocations followed in one behaviour
NumShards == 3      \* shards followed in one behaviour (the code asks for 10)
MaxAttempts == 2    \* task-queue attempts of one shard before it fails for good
MaxEntities == 2    \* instances of the target model
MaxJobLogs == 2     \* logs written while the pipelines are followed
MaxWriters == 2     \* concurrent callers of _log_action
MaxCalls == 4       \* calls of _log_action and _finish made in all, retries included
MaxDomain == 5      \* entities of a mapped queryset
BatchSize == 2      \* entities handled between two saved cursors
MaxCrashes == 1     \* shard tasks that fail and are delivered again
Workers == 2        \* shard tasks that run at the same time

\* ------------------------------------------------------- program constants
MAX_ERRORS == 100

\* ------------------------------------------------------------- value sets
EntityIds == 1..MaxEntities
Values == {1, 2}
TargetModel == "A"      \* db_table of the model the action is about
OtherModel == "B"       \* db_table of another model with unique markers
ActionPk == 1

ACTION_TYPES == {"check", "repair", "clean"}
ACTION_STATUSES == {"running", "done"}
LOG_MSGS == {"missing_marker", "missing_instance", "already_assigned", "old_instance_key"}

VARIABLES
    actionType,     \* UniqueAction.action_type ("none" before the record exists)
    actionStatus,   \* UniqueAction.status
    actionLogs,     \* UniqueAction.logs: the set of ActionLog pks
    logRows,        \* the ActionLog table: row i has pk i
    entities,       \* the primary store of TargetModel: id -> [exists, vals]
    markers,        \* the unique-marker store: marker key -> marker record
    clock,          \* datetime.now(), advanced by every handler run
    trace,          \* one record per handler invocation (history)
    rootState,      \* the root pipeline (CheckRepairMapper / CleanMapper)
    mapperState,    \* its MapperPipeline child
    callbackState,  \* its CallbackPipeline child
    shardState,     \* per shard of the map job
    shardAttempts,  \* per shard: attempts used so far
    pipelinesStarted, \* number of pipe.start() calls so far
    pipeline,       \* the pipeline start_action built and started
    txns,           \* the transactions in progress on the action record
    actionVersion,  \* commits made to the action record's entity group
    domainSize,     \* map_queryset: number of entities of the queryset
    shardCount,     \* map_queryset: number of shards asked for
    scanState,      \* per shard of the scan: pending, running, done
    scanPos,        \* per shard: the next key the running task will handle
    scanCursor,     \* per shard: the persisted last_processed_key (0: none)
    resumeKey,      \* per shard: the cursor the running task started from
    lastKey,        \* per shard: the key the running task handled last (0: none)
    handled,        \* per key: number of times the handler was applied to it
    counter,        \* Counter.count of the counting handler
    finalized,      \* number of times the finalize function has run
    crashes         \* shard tasks that failed and were redelivered

vars == <<actionType, actionStatus, actionLogs, logRows, entities, markers, clock,
          trace, rootState, mapperState, callbackState, shardState, shardAttempts,
          pipelinesStarted, pipeline, txns, actionVersion, domainSize, shardCount,
          scanState, scanPos, scanCursor, resumeKey, lastKey, handled, counter,
          finalized, crashes>>

actionVars == <<actionType, actionStatus, actionLogs, logRows>>
storeVars == <<entities, markers, clock, trace>>
jobVars == <<rootState, mapperState, callbackState, shardState, shardAttempts,
             pipelinesStarted, pipeline>>
txnVars == <<txns, actionVersion>>
scanVars == <<domainSize, shardCount, scanState, scanPos, scanCursor, resumeKey,
              lastKey, handled, counter, finalized, crashes>>

\* ------------------------------------------------------------------- keys
\* datastore.Key of an entity: kind and id.
Key(kind, id) == [kind |-> kind, id |-> id]
NoKey == [kind |-> "", id |-> 0]

\* The values a marker's 'instance' property takes: the property is absent,
\* it is None or "", it is a datastore.Key, or it is the str() of one (markers
\* written when the property was a StringProperty).
InstAbsent == [form |-> "absent", key |-> NoKey]
InstEmpty == [form |-> "empty", key |-> NoKey]
KeyRef(k) == [form |-> "key", key |-> k]
StrRef(k) == [form |-> "str", key |-> k]

\* str(key) and datastore.Key(encoded): the two directions of the encoding.
EncodeKey(ref) == [form |-> "str", key |-> ref.key]
DecodeKey(ref) == [form |-> "key", key |-> ref.key]
IsBasestring(ref) == ref.form = "str"

\* entity.key() of the instance being mapped.
EntityKey(e) == KeyRef(Key(TargetModel, e))

\* A marker's key name is "<db_table>|<unique field values>".
MarkerKey(table, v) == [table |-> table, value |-> v]
MarkerKeys == {MarkerKey(TargetModel, v) : v \in Values} \cup {MarkerKey(OtherModel, 1)}
MarkerKeyStr(i) == [encoded |-> i]

NoMarker == [present |-> FALSE, instance |-> InstAbsent, created |-> 0]
Marker(inst, created) == [present |-> TRUE, instance |-> inst, created |-> created]

\* ---------------------------------------------------------- unique identifiers
RECURSIVE SortedSeq(_)
SortedSeq(S) ==
    IF S = {} THEN <<>>
    ELSE LET m == CHOOSE x \in S : \A y \in S : x <= y
         IN <<m>> \o SortedSeq(S \ {m})

\* unique_identifiers_from_entity + Key.from_path: the marker keys an entity's
\* current unique field values call for, in a fixed order.
IdentifierKeys(ents, e) ==
    LET vs == SortedSeq(ents[e].vals)
    IN [n \in 1..Len(vs) |-> MarkerKey(TargetModel, vs[n])]

SeqRange(s) == {s[n] : n \in 1..Len(s)}

\* ------------------------------------------------------------ the action record
\* The state of the action record and its logs, as one value.
ActionState(logs, rows) == [logs |-> logs, rows |-> rows]

\* The cap test of _log_action: the append is dropped when it holds.
LogCapReached(n) == n > MAX_ERRORS

\* A _log_action that creates the row before it tests the cap.
LogActionRowAtCap(st, log_type, instance_key, marker_key) ==
    LET pk == Len(st.rows) + 1
        rows == Append(st.rows, [action |-> ActionPk, log_type |-> log_type,
                                 instance_key |-> instance_key,
                                 marker_key |-> marker_key])
    IN IF LogCapReached(Cardinality(st.logs)) THEN [logs |-> st.logs, rows |-> rows]
       ELSE [logs |-> st.logs \cup {pk}, rows |-> rows]

\* _log_action: create the ActionLog row and add it to action.logs, unless the
\* action already holds more than MAX_ERRORS logs.
LogAction(st, log_type, instance_key, marker_key) ==
    IF LogCapReached(Cardinality(st.logs)) THEN st
    ELSE LET pk == Len(st.rows) + 1
         IN [logs |-> st.logs \cup {pk},
             rows |-> Append(st.rows, [action |-> ActionPk, log_type |-> log_type,
                                       instance_key |-> instance_key,
                                       marker_key |-> marker_key])]

\* ------------------------------------------------------------ check_repair_map
\* What the handling of one marker yields: markers to save and logs to write.
Outcome(save, logs) == [save |-> save, logs |-> logs]
ToSave(i, m) == [key |-> i, rec |-> m]

\* "if m is None"
MarkerMissing(m) == ~m.present

\* Mutant: only a marker without the property counts, not a None or "" one.
InstanceMissingOnlyAbsent(m) == m.instance.form = "absent"

\* "'instance' not in m or not m['instance']"
InstanceMissing(m) == m.instance.form \in {"absent", "empty"}

\* Mutant: the instance is compared with instance_key, the str of the key.
PointsElsewhereThanStr(inst, e) == inst # EncodeKey(EntityKey(e))

\* "m['instance'] != entity.key()": a str never equals a Key.
PointsElsewhere(inst, e) == inst # EntityKey(e)

\* Mutant: the marker is recreated whatever the mode.
MissingMarkerCaseAnyMode(i, e, repair, now) ==
    Outcome(<<ToSave(i, Marker(EntityKey(e), now))>>, <<>>)

\* The marker is missing: recreate it in repair mode, else log it.
MissingMarkerCase(i, e, repair, now) ==
    IF repair
    THEN Outcome(<<ToSave(i, Marker(EntityKey(e), now))>>, <<>>)
    ELSE Outcome(<<>>, <<"missing_marker">>)

\* The marker has no instance: set it in repair mode, else log it.
MissingInstanceCase(i, m, e, repair) ==
    IF repair
    THEN Outcome(<<ToSave(i, [m EXCEPT !.instance = EntityKey(e)])>>, <<>>)
    ELSE Outcome(<<>>, <<"missing_instance">>)

\* Mutant: the converted marker is never saved.
OldInstanceKeyCaseNeverSaved(i, m, repair) ==
    Outcome(<<>>, IF repair THEN <<>> ELSE <<"old_instance_key">>)

\* Mutant: the converted marker is saved in check mode too.
OldInstanceKeyCaseAlwaysSaved(i, m, repair) ==
    Outcome(<<ToSave(i, m)>>, IF repair THEN <<>> ELSE <<"old_instance_key">>)

\* The instance is a string: m (already turned into a Key) is saved in repair
\* mode, else the old form is logged.
OldInstanceKeyCase(i, m, repair) ==
    IF repair
    THEN Outcome(<<ToSave(i, m)>>, <<>>)
    ELSE Outcome(<<>>, <<"old_instance_key">>)

\* Mutant: repair mode takes the marker over for the instance being mapped.
AlreadyAssignedCaseTakenOver(i, m, e, repair) ==
    IF PointsElsewhere(m.instance, e) /\ repair
    THEN Outcome(<<ToSave(i, [m EXCEPT !.instance = EntityKey(e)])>>, <<>>)
    ELSE IF PointsElsewhere(m.instance, e)
    THEN Outcome(<<>>, <<"already_assigned">>)
    ELSE Outcome(<<>>, <<>>)

\* The marker (after the conversion) belongs to another instance: logged in
\* both modes, never saved.
AlreadyAssignedCase(i, m, e, repair) ==
    IF PointsElsewhere(m.instance, e)
    THEN Outcome(<<>>, <<"already_assigned">>)
    ELSE Outcome(<<>>, <<>>)

\* The instance differs from entity.key().
OtherInstanceCase(i, m, e, repair) ==
    LET str == IsBasestring(m.instance)
        m2 == IF str THEN [m EXCEPT !.instance = DecodeKey(m.instance)] ELSE m
        old == IF str THEN OldInstanceKeyCase(i, m2, repair) ELSE Outcome(<<>>, <<>>)
        asg == AlreadyAssignedCase(i, m2, e, repair)
    IN Outcome(old.save \o asg.save, old.logs \o asg.logs)

\* The body of the loop over zip(identifier_keys, markers).
MarkerCase(i, m, e, repair, now) ==
    IF MarkerMissing(m) THEN MissingMarkerCase(i, e, repair, now)
    ELSE IF InstanceMissing(m) THEN MissingInstanceCase(i, m, e, repair)
    ELSE IF PointsElsewhere(m.instance, e) THEN OtherInstanceCase(i, m, e, repair)
    ELSE Outcome(<<>>, <<>>)

\* log(..., defer=False) for each log of one marker, in order.
RECURSIVE LogEach(_, _, _, _)
LogEach(st, types, e, i) ==
    IF types = <<>> THEN st
    ELSE LogEach(LogAction(st, Head(types), EncodeKey(EntityKey(e)), MarkerKeyStr(i)),
                 Tail(types), e, i)

\* The loop: markers were read once by datastore.Get before it; logs are
\* written as it goes, saves are collected in markers_to_save.
RECURSIVE CheckRepairLoop(_, _, _, _, _, _, _)
CheckRepairLoop(keys, got, e, repair, now, save, st) ==
    IF keys = <<>> THEN [save |-> save, action |-> st]
    ELSE LET i == Head(keys)
             r == MarkerCase(i, got[i], e, repair, now)
         IN CheckRepairLoop(Tail(keys), got, e, repair, now,
                            save \o r.save, LogEach(st, r.logs, e, i))

\* datastore.Put(markers_to_save): one batch write.
PutAll(mks, save) ==
    [k \in DOMAIN mks |->
        IF \E n \in 1..Len(save) : save[n].key = k
        THEN save[CHOOSE n \in 1..Len(save) :
                    /\ save[n].key = k
                    /\ \A n2 \in 1..Len(save) : save[n2].key = k => n2 <= n].rec
        ELSE mks[k]]

\* Mutant: every marker to save is written by a Put of its own.
PutsOfOnePerMarker(save) == [n \in 1..Len(save) |-> <<save[n]>>]

\* "if markers_to_save: datastore.Put(markers_to_save)": the batches written.
PutsOf(save) == IF save # <<>> THEN <<save>> ELSE <<>>

\* One record of the history of handler runs.
Run(handler, e, mk, repair, ents, pre, post, preLogs, postLogs, puts, deletes, error) ==
    [handler |-> handler, entity |-> e, marker |-> mk, repair |-> repair,
     ents |-> ents, pre |-> pre, post |-> post, preLogs |-> preLogs,
     postLogs |-> postLogs, puts |-> puts, deletes |-> deletes, error |-> error]

\* check_repair_map(instance): the map handler of CheckRepairMapper, applied
\* to one instance of the target model; repair is the mapper parameter that
\* start_action set from the action type.
CheckRepairMap(e) ==
    /\ actionType \in {"check", "repair"}
    /\ entities[e].exists
    /\ Len(trace) < MaxRuns
    /\ LET repair == (actionType = "repair")
           keys == IdentifierKeys(entities, e)
           res == CheckRepairLoop(keys, markers, e, repair, clock + 1, <<>>,
                                  ActionState(actionLogs, logRows))
           post == IF res.save # <<>> THEN PutAll(markers, res.save) ELSE markers
       IN /\ markers' = post
          /\ actionLogs' = res.action.logs
          /\ logRows' = res.action.rows
          /\ trace' = Append(trace,
                Run("check_repair_map", e, MarkerKey(TargetModel, 0), repair, entities,
                    markers, post, Len(logRows), Len(res.action.rows),
                    PutsOf(res.save), <<>>, FALSE))
    /\ clock' = clock + 1
    /\ UNCHANGED <<actionType, actionStatus, entities>>
    /\ UNCHANGED jobVars
    /\ UNCHANGED txnVars
    /\ UNCHANGED scanVars

\* ------------------------------------------------------------------ Init parts
BackRefs ==
    {InstAbsent, InstEmpty}
    \cup {KeyRef(Key(TargetModel, e)) : e \in EntityIds}
    \cup {StrRef(Key(TargetModel, e)) : e \in EntityIds}

TargetMarkerRecs == {NoMarker} \cup {Marker(inst, 0) : inst \in BackRefs}
OtherMarkerRecs == {NoMarker, Marker(KeyRef(Key(OtherModel, 1)), 0)}

\* The pipeline start_action builds for an action type: CleanMapper for a
\* clean action, else CheckRepairMapper with repair set for a repair action.
PipelineFor(action_type) ==
    IF action_type = "clean"
    THEN [pipe |-> "CleanMapper", repair |-> FALSE]
    ELSE [pipe |-> "CheckRepairMapper", repair |-> (action_type = "repair")]

NoPipeline == [pipe |-> "none", repair |-> FALSE]

\* No transaction is in progress on the action record.
TxnIdle ==
    /\ txns = <<>>
    /\ actionVersion = 0

\* No queryset is being mapped.
ScanIdle ==
    /\ domainSize = 0
    /\ shardCount = 0
    /\ scanState = <<>>
    /\ scanPos = <<>>
    /\ scanCursor = <<>>
    /\ resumeKey = <<>>
    /\ lastKey = <<>>
    /\ handled = <<>>
    /\ counter = 0
    /\ finalized = 0
    /\ crashes = 0

\* The pipelines of a job whose map phase is under way.
JobUnderWay ==
    /\ rootState = "run"
    /\ mapperState = "running"
    /\ callbackState = "waiting"
    /\ shardState = [s \in 1..NumShards |-> "scanning"]
    /\ shardAttempts = [s \in 1..NumShards |-> 1]
    /\ pipelinesStarted = 1
    /\ pipeline = PipelineFor(actionType)

\* A check or repair action over instances that all exist; the marker store is
\* in any condition, which is what the tool is there to find out.
InitCheckRepair ==
    /\ actionType \in {"check", "repair"}
    /\ actionStatus = "running"
    /\ actionLogs = {}
    /\ logRows = <<>>
    /\ entities \in [EntityIds -> {[exists |-> TRUE, vals |-> S] : S \in SUBSET Values}]
    /\ markers \in {f \in [MarkerKeys -> TargetMarkerRecs \cup OtherMarkerRecs] :
                      \A k \in MarkerKeys :
                         IF k.table = TargetModel THEN f[k] \in TargetMarkerRecs
                         ELSE f[k] = NoMarker}
    /\ clock = 0
    /\ trace = <<>>
    /\ JobUnderWay
    /\ TxnIdle
    /\ ScanIdle

NextCheckRepair == \E e \in EntityIds : CheckRepairMap(e)

SpecCheckRepair == InitCheckRepair /\ [][NextCheckRepair]_vars

\* ------------------------------------------------------------------ clean_map
\* "entity.key().id_or_name().startswith(model._meta.db_table + '|')"
BelongsToModel(mk) == mk.table = TargetModel

\* "entity['instance'].id_or_name()": a KeyError when the marker has no
\* 'instance', an AttributeError when it is None or a string.
HasInstanceId(inst) == inst.form = "key"

\* "model.objects.using(alias).get(pk=instance_id)" finds the instance.
InstanceExists(ents, id) == id \in DOMAIN ents /\ ents[id].exists

\* "entity.key() not in identifier_keys"
NotAnIdentifier(mk, ents, id) == mk \notin SeqRange(IdentifierKeys(ents, id))

\* clean_map(entity) on the marker stored under mk: the markers it deletes,
\* and whether it raised.
CleanMapResult(mk, mks, ents) ==
    IF ~BelongsToModel(mk) THEN [deletes |-> <<>>, error |-> FALSE]
    ELSE IF ~HasInstanceId(mks[mk].instance) THEN [deletes |-> <<>>, error |-> TRUE]
    ELSE IF ~InstanceExists(ents, mks[mk].instance.key.id)
         THEN [deletes |-> <<mk>>, error |-> FALSE]
    ELSE IF NotAnIdentifier(mk, ents, mks[mk].instance.key.id)
         THEN [deletes |-> <<mk>>, error |-> FALSE]
    ELSE [deletes |-> <<>>, error |-> FALSE]

\* datastore.Delete(entity) for each marker of the list.
DeleteAll(mks, deletes) ==
    [k \in DOMAIN mks |-> IF k \in SeqRange(deletes) THEN NoMarker ELSE mks[k]]

\* clean_map(entity): the map handler of CleanMapper, applied to one stored
\* marker of any model.
CleanMap(mk) ==
    /\ actionType = "clean"
    /\ markers[mk].present
    /\ Len(trace) < MaxRuns
    /\ LET res == CleanMapResult(mk, markers, entities)
           post == DeleteAll(markers, res.deletes)
       IN /\ markers' = post
          /\ trace' = Append(trace,
                Run("clean_map", 0, mk, FALSE, entities, markers, post,
                    Len(logRows), Len(logRows), <<>>, res.deletes, res.error))
    /\ clock' = clock + 1
    /\ UNCHANGED <<actionType, actionStatus, actionLogs, logRows, entities>>
    /\ UNCHANGED jobVars
    /\ UNCHANGED txnVars
    /\ UNCHANGED scanVars

\* A clean action: instances exist or not, markers of both models are stored.
InitClean ==
    /\ actionType = "clean"
    /\ actionStatus = "running"
    /\ actionLogs = {}
    /\ logRows = <<>>
    /\ entities \in [EntityIds -> {[exists |-> FALSE, vals |-> {}]}
                                   \cup {[exists |-> TRUE, vals |-> S] : S \in SUBSET Values}]
    /\ markers \in {f \in [MarkerKeys -> TargetMarkerRecs \cup OtherMarkerRecs] :
                      \A k \in MarkerKeys :
                         IF k.table = TargetModel THEN f[k] \in TargetMarkerRecs
                         ELSE f[k] \in OtherMarkerRecs}
    /\ clock = 0
    /\ trace = <<>>
    /\ JobUnderWay
    /\ TxnIdle
    /\ ScanIdle

NextClean == \E mk \in MarkerKeys : CleanMap(mk)

SpecClean == InitClean /\ [][NextClean]_vars

\* ------------------------------------------------------- the action's pipelines
\* The arguments of the _log_action calls followed outside the handlers.
LogCalls == {<<"missing_marker", 1, 1>>}

Shards == 1..NumShards

\* Mutant: every save of the record starts a pipeline.
StartActionOnEverySave(created, started) == started + 1

\* start_action, the post_save receiver: a pipeline is started only for the
\* save that created the record. The result is the number of pipelines started.
StartAction(created, started) == IF created = FALSE THEN started ELSE started + 1

\* start_action: the pipeline in existence after the save of a record of the
\* given type.
StartedPipe(created, action_type, current) ==
    IF created = FALSE THEN current ELSE PipelineFor(action_type)

\* _finish: the action's status after finish_the_action().
Finish(status) == "done"

\* What the CallbackPipeline child waits for before it may run: the slots it
\* takes as arguments. run() hands it kwargs['action_pk'], a plain value, and
\* yields it outside any After/InOrder block, so it waits for nothing.
CallbackWaitsFor == {}

\* The children a yield has made runnable.
ChildReady(waitsFor, done) == waitsFor \subseteq done

\* The pipelines that have filled their output slots.
DonePipelines == IF mapperState = "done" THEN {"mapper"} ELSE {}

\* UniqueAction.objects.create(action_type=t, ...): the record is saved as
\* "running" and post_save starts its pipeline.
CreateAction(t) ==
    /\ actionType = "none"
    /\ actionType' = t
    /\ actionStatus' = "running"
    /\ pipelinesStarted' = StartAction(TRUE, pipelinesStarted)
    /\ pipeline' = StartedPipe(TRUE, t, pipeline)
    /\ rootState' = "started"
    /\ UNCHANGED <<actionLogs, logRows, mapperState, callbackState, shardState,
                   shardAttempts>>
    /\ UNCHANGED storeVars
    /\ UNCHANGED txnVars
    /\ UNCHANGED scanVars

\* CheckRepairMapper.run / CleanMapper.run: the generator yields the
\* MapperPipeline over the shards and then the CallbackPipeline.
RootRun ==
    /\ rootState = "started"
    /\ rootState' = "run"
    /\ mapperState' = "running"
    /\ shardState' = [s \in Shards |-> "pending"]
    /\ shardAttempts' = [s \in Shards |-> 0]
    /\ callbackState' = "waiting"
    /\ UNCHANGED <<pipelinesStarted>>
    /\ UNCHANGED actionVars
    /\ UNCHANGED pipeline
    /\ UNCHANGED storeVars
    /\ UNCHANGED txnVars
    /\ UNCHANGED scanVars

\* The task queue delivers a shard's task.
ShardStart(s) ==
    /\ mapperState = "running"
    /\ shardState[s] = "pending"
    /\ shardState' = [shardState EXCEPT ![s] = "scanning"]
    /\ shardAttempts' = [shardAttempts EXCEPT ![s] = @ + 1]
    /\ UNCHANGED <<rootState, mapperState, callbackState, pipelinesStarted>>
    /\ UNCHANGED actionVars
    /\ UNCHANGED pipeline
    /\ UNCHANGED storeVars
    /\ UNCHANGED txnVars
    /\ UNCHANGED scanVars

\* A shard has mapped the handler over all its entities.
ShardSucceed(s) ==
    /\ mapperState = "running"
    /\ shardState[s] = "scanning"
    /\ shardState' = [shardState EXCEPT ![s] = "done"]
    /\ UNCHANGED <<rootState, mapperState, callbackState, shardAttempts, pipelinesStarted>>
    /\ UNCHANGED actionVars
    /\ UNCHANGED pipeline
    /\ UNCHANGED storeVars
    /\ UNCHANGED txnVars
    /\ UNCHANGED scanVars

\* A shard's task raised and has attempts left: it is delivered again.
ShardRetry(s) ==
    /\ mapperState = "running"
    /\ shardState[s] = "scanning"
    /\ shardAttempts[s] < MaxAttempts
    /\ shardState' = [shardState EXCEPT ![s] = "pending"]
    /\ UNCHANGED <<rootState, mapperState, callbackState, shardAttempts, pipelinesStarted>>
    /\ UNCHANGED actionVars
    /\ UNCHANGED pipeline
    /\ UNCHANGED storeVars
    /\ UNCHANGED txnVars
    /\ UNCHANGED scanVars

\* A shard's task raised on its last attempt: the shard has failed.
ShardFail(s) ==
    /\ mapperState = "running"
    /\ shardState[s] = "scanning"
    /\ shardAttempts[s] >= MaxAttempts
    /\ shardState' = [shardState EXCEPT ![s] = "failed"]
    /\ UNCHANGED <<rootState, mapperState, callbackState, shardAttempts, pipelinesStarted>>
    /\ UNCHANGED actionVars
    /\ UNCHANGED pipeline
    /\ UNCHANGED storeVars
    /\ UNCHANGED txnVars
    /\ UNCHANGED scanVars

\* Every shard is done: the MapperPipeline fills its output slots.
MapperComplete ==
    /\ mapperState = "running"
    /\ \A s \in Shards : shardState[s] = "done"
    /\ mapperState' = "done"
    /\ UNCHANGED <<rootState, callbackState, shardState, shardAttempts, pipelinesStarted>>
    /\ UNCHANGED actionVars
    /\ UNCHANGED pipeline
    /\ UNCHANGED storeVars
    /\ UNCHANGED txnVars
    /\ UNCHANGED scanVars

\* A shard has failed: the map job fails and the whole pipeline is aborted,
\* together with any child that has not run yet.
MapperAbort ==
    /\ mapperState = "running"
    /\ \E s \in Shards : shardState[s] = "failed"
    /\ mapperState' = "aborted"
    /\ rootState' = "aborted"
    /\ callbackState' = IF callbackState = "done" THEN "done" ELSE "aborted"
    /\ UNCHANGED <<shardState, shardAttempts, pipelinesStarted>>
    /\ UNCHANGED actionVars
    /\ UNCHANGED pipeline
    /\ UNCHANGED storeVars
    /\ UNCHANGED txnVars
    /\ UNCHANGED scanVars

\* CallbackPipeline.run: _finish(action_pk), as soon as the pipeline's
\* barrier finds everything it waits for; its save is not a creating one.
CallbackRun ==
    /\ rootState = "run"
    /\ callbackState = "waiting"
    /\ ChildReady(CallbackWaitsFor, DonePipelines)
    /\ actionStatus' = Finish(actionStatus)
    /\ pipelinesStarted' = StartAction(FALSE, pipelinesStarted)
    /\ pipeline' = StartedPipe(FALSE, actionType, pipeline)
    /\ callbackState' = "done"
    /\ UNCHANGED <<actionType, actionLogs, logRows, rootState, mapperState, shardState,
                   shardAttempts>>
    /\ UNCHANGED storeVars
    /\ UNCHANGED txnVars
    /\ UNCHANGED scanVars

\* The handler of a scanning shard logs a discrepancy: _log_action saves the
\* action record, which is not a creating save.
ShardLog(s, c) ==
    /\ actionType \in {"check", "repair"}
    /\ mapperState = "running"
    /\ shardState[s] = "scanning"
    /\ Len(logRows) < MaxJobLogs
    /\ LET st == LogAction(ActionState(actionLogs, logRows), c[1],
                           EncodeKey(EntityKey(c[2])),
                           MarkerKeyStr(MarkerKey(TargetModel, c[3])))
       IN /\ actionLogs' = st.logs
          /\ logRows' = st.rows
    /\ pipelinesStarted' = StartAction(FALSE, pipelinesStarted)
    /\ pipeline' = StartedPipe(FALSE, actionType, pipeline)
    /\ UNCHANGED <<actionType, actionStatus, rootState, mapperState, callbackState,
                   shardState, shardAttempts>>
    /\ UNCHANGED storeVars
    /\ UNCHANGED txnVars
    /\ UNCHANGED scanVars

\* Both children are done: the root pipeline is done.
RootDone ==
    /\ rootState = "run"
    /\ mapperState = "done"
    /\ callbackState = "done"
    /\ rootState' = "done"
    /\ UNCHANGED <<mapperState, callbackState, shardState, shardAttempts, pipelinesStarted>>
    /\ UNCHANGED actionVars
    /\ UNCHANGED pipeline
    /\ UNCHANGED storeVars
    /\ UNCHANGED txnVars
    /\ UNCHANGED scanVars

\* No stored instance or marker matters to the pipelines.
StoreIdle ==
    /\ entities = [e \in EntityIds |-> [exists |-> TRUE, vals |-> {}]]
    /\ markers = [k \in MarkerKeys |-> NoMarker]
    /\ clock = 0
    /\ trace = <<>>

\* Before the action record exists.
InitJob ==
    /\ actionType = "none"
    /\ actionStatus = "none"
    /\ actionLogs = {}
    /\ logRows = <<>>
    /\ rootState = "none"
    /\ mapperState = "none"
    /\ callbackState = "none"
    /\ shardState = [s \in Shards |-> "none"]
    /\ shardAttempts = [s \in Shards |-> 0]
    /\ pipelinesStarted = 0
    /\ pipeline = NoPipeline
    /\ StoreIdle
    /\ TxnIdle
    /\ ScanIdle

NextJob ==
    \/ \E t \in ACTION_TYPES : CreateAction(t)
    \/ RootRun
    \/ \E s \in Shards : ShardStart(s)
    \/ \E s \in Shards : ShardSucceed(s)
    \/ \E s \in Shards : ShardRetry(s)
    \/ \E s \in Shards : ShardFail(s)
    \/ MapperComplete
    \/ MapperAbort
    \/ CallbackRun
    \/ \E s \in Shards, c \in LogCalls : ShardLog(s, c)
    \/ RootDone

SpecJob == InitJob /\ [][NextJob]_vars

\* ------------------------------------------------------------- a single writer
\* _log_action(action_id, log_type, instance_key, marker_key), run as the one
\* transaction in progress.
LogActionCall(c) ==
    /\ actionType \in {"check", "repair"}
    /\ LET st == LogAction(ActionState(actionLogs, logRows), c[1],
                           EncodeKey(EntityKey(c[2])),
                           MarkerKeyStr(MarkerKey(TargetModel, c[3])))
       IN /\ actionLogs' = st.logs
          /\ logRows' = st.rows
    /\ UNCHANGED <<actionType, actionStatus>>
    /\ UNCHANGED storeVars
    /\ UNCHANGED jobVars
    /\ UNCHANGED txnVars
    /\ UNCHANGED scanVars

\* _finish(action_pk), run as the one transaction in progress.
FinishCall ==
    /\ actionStatus = "running"
    /\ actionStatus' = Finish(actionStatus)
    /\ UNCHANGED <<actionType, actionLogs, logRows>>
    /\ UNCHANGED storeVars
    /\ UNCHANGED jobVars
    /\ UNCHANGED txnVars
    /\ UNCHANGED scanVars

InitLog ==
    /\ actionType \in {"check", "repair"}
    /\ actionStatus = "running"
    /\ actionLogs = {}
    /\ logRows = <<>>
    /\ StoreIdle
    /\ JobUnderWay
    /\ TxnIdle
    /\ ScanIdle

NextLog ==
    \/ \E c \in LogCalls : LogActionCall(c)
    \/ FinishCall

SpecLog == InitLog /\ [][NextLog]_vars

\* ------------------------------------------------------------------ properties
\* What the properties below read from the history of handler runs.
CheckRepairRuns == {n \in 1..Len(trace) : trace[n].handler = "check_repair_map"}
CleanRuns == {n \in 1..Len(trace) : trace[n].handler = "clean_map"}

\* The marker keys the run's instance called for.
Expected(r) == SeqRange(IdentifierKeys(r.ents, r.entity))

\* The pks of the logs the run appended.
LogsOfRun(r) == (r.preLogs + 1)..r.postLogs

\* The logs of one type the run appended for the marker i of its instance.
LogsFor(r, type, i) ==
    {pk \in LogsOfRun(r) :
        /\ pk \in actionLogs
        /\ logRows[pk].action = ActionPk
        /\ logRows[pk].log_type = type
        /\ logRows[pk].instance_key = EncodeKey(EntityKey(r.entity))
        /\ logRows[pk].marker_key = MarkerKeyStr(i)}

\* The run wrote nothing to the marker store.
NoWrite(r) == r.puts = <<>> /\ r.deletes = <<>> /\ r.post = r.pre

\* Two runs of check_repair_map on the same instance, one right after the other.
Rerun(n) ==
    /\ n \in CheckRepairRuns
    /\ n + 1 \in CheckRepairRuns
    /\ trace[n + 1].entity = trace[n].entity

\* C1: the callback that sets the status to "done" runs only after every shard
\* of the map phase has completed: the status is never "done" while a shard is
\* still scanning or has not started.
C1_DoneOnlyAfterAllShards ==
    actionStatus = "done" => \A s \in Shards : shardState[s] = "done"

\* C2: with a single writer, the number of logs attached to the action never
\* exceeds MAX_ERRORS.
C2_LogsNeverExceedMax == Cardinality(actionLogs) <= MAX_ERRORS

\* C3: check_repair_map is idempotent: a second invocation on the same instance
\* right after the first leaves the markers and the action's logs as the first
\* left them.
C3_RerunChangesNothing ==
    \A n \in 1..Len(trace) :
        Rerun(n) =>
            /\ trace[n + 1].post = trace[n].post
            /\ trace[n + 1].postLogs = trace[n].postLogs

\* C4: once a shard has failed for good and the job is over, the action's
\* status reports the failure: it is neither "running" nor "done".
C4_FailedShardIsReported ==
    (rootState \in {"done", "aborted"} /\ \E s \in Shards : shardState[s] = "failed")
        => actionStatus \notin {"running", "done"}

C6_SecondRepairIsNoOp ==
    \A n \in 1..Len(trace) :
        LET r == trace[n]
            missing == {i \in Expected(r) : ~r.pre[i].present}
        IN (Rerun(n) /\ r.repair /\ missing # {}) =>
              /\ \A i \in missing :
                    r.post[i].present /\ r.post[i].instance = EntityKey(r.entity)
              /\ NoWrite(trace[n + 1])
              /\ LogsOfRun(trace[n + 1]) = {}

\* C7: a run, in either mode, on an instance whose expected markers all exist
\* and all point to it appends no log and writes nothing to the marker store,
\* however often it is repeated.
C7_CorrectMarkersNoLogNoWrite ==
    \A n \in CheckRepairRuns :
        LET r == trace[n]
        IN (\A i \in Expected(r) :
                r.pre[i].present /\ r.pre[i].instance = EntityKey(r.entity))
           => (LogsOfRun(r) = {} /\ NoWrite(r))

C7_Witness ==
    /\ Len(trace) >= 2
    /\ \A n \in 1..Len(trace) :
          /\ n \in CheckRepairRuns
          /\ trace[n].entity = trace[1].entity
          /\ Cardinality(Expected(trace[n])) = 2
          /\ \A i \in Expected(trace[n]) :
                trace[n].pre[i].present
                /\ trace[n].pre[i].instance = EntityKey(trace[n].entity)

\* C8: clean_map deletes the marker it is given if and only if the marker is
\* of the target model and its instance is gone or no longer calls for it; it
\* touches no other marker and it never raises.
C8_CleanDeletesExactlyStale ==
    \A n \in CleanRuns :
        LET r == trace[n]
            inst == r.pre[r.marker].instance
            owned == inst.form \in {"key", "str"} /\ inst.key.id \in DOMAIN r.ents
                     /\ r.ents[inst.key.id].exists
            stale == r.marker.table = TargetModel
                     /\ (~owned \/ r.marker \notin SeqRange(IdentifierKeys(r.ents, inst.key.id)))
        IN /\ ~r.error
           /\ (~r.post[r.marker].present) <=> stale
           /\ \A k \in MarkerKeys \ {r.marker} : r.post[k] = r.pre[k]

C13_OnePipelinePerRecord ==
    /\ actionType = "none" => (pipelinesStarted = 0 /\ pipeline.pipe = "none")
    /\ actionType # "none" =>
          /\ pipelinesStarted = 1
          /\ (actionType = "clean") <=> (pipeline.pipe = "CleanMapper")
          /\ (actionType \in {"check", "repair"}) <=> (pipeline.pipe = "CheckRepairMapper")
          /\ pipeline.repair <=> (actionType = "repair")

C13_Witness ==
    /\ actionType = "repair"
    /\ actionStatus = "done"
    /\ Len(logRows) = MaxJobLogs
    /\ pipelinesStarted = 1
    /\ pipeline.repair

\* The markers a run's batch holds, by key.
BatchKeys(batch) == {batch[n].key : n \in 1..Len(batch)}

\* The logs of any type the run appended for the marker i.
LogsAbout(r, i) == {pk \in LogsOfRun(r) : logRows[pk].marker_key = MarkerKeyStr(i)}

\* C17: one run of check_repair_map writes to the marker store at most once:
\* the markers it creates or updates (in repair mode: the missing ones, those
\* without an instance, those with a string instance) go into one batch Put,
\* and there is no Put when there is nothing to save.
C17_OneBatchPut ==
    \A n \in CheckRepairRuns :
        LET r == trace[n]
            toSave == {i \in Expected(r) :
                          r.repair /\ (~r.pre[i].present
                                       \/ r.pre[i].instance.form \in {"absent", "empty", "str"})}
        IN /\ Len(r.puts) <= 1
           /\ (r.puts = <<>>) <=> (toSave = {})
           /\ r.puts = <<>> => r.post = r.pre
           /\ r.puts # <<>> =>
                 /\ BatchKeys(r.puts[1]) = toSave
                 /\ Len(r.puts[1]) = Cardinality(toSave)
                 /\ \A k \in MarkerKeys \ toSave : r.post[k] = r.pre[k]
                 /\ \A b \in 1..Len(r.puts[1]) : r.post[r.puts[1][b].key] = r.puts[1][b].rec

C17_Witness ==
    \E n \in CheckRepairRuns :
        /\ trace[n].repair
        /\ Len(trace[n].puts) = 1
        /\ Len(trace[n].puts[1]) = 2
        /\ \E i \in Expected(trace[n]) : ~trace[n].pre[i].present
        /\ \E i \in Expected(trace[n]) : trace[n].pre[i].instance.form = "str"

CreateCheckAction ==
    /\ actionType = "repair"
    /\ trace # <<>>
    /\ actionType' = "check"
    /\ actionStatus' = "running"
    /\ actionLogs' = {}
    /\ logRows' = <<>>
    /\ pipelinesStarted' = StartAction(TRUE, pipelinesStarted)
    /\ pipeline' = StartedPipe(TRUE, "check", pipeline)
    /\ UNCHANGED <<rootState, mapperState, callbackState, shardState, shardAttempts>>
    /\ UNCHANGED storeVars
    /\ UNCHANGED txnVars
    /\ UNCHANGED scanVars

InitRepairThenCheck ==
    /\ InitCheckRepair
    /\ actionType = "repair"

NextRepairThenCheck ==
    \/ \E e \in EntityIds : CheckRepairMap(e)
    \/ CreateCheckAction

SpecRepairThenCheck == InitRepairThenCheck /\ [][NextRepairThenCheck]_vars

\* The marker belongs to another instance than e, in key or in string form.
OwnedByOther(m, e) ==
    /\ m.present
    /\ m.instance.form \in {"key", "str"}
    /\ m.instance.key # Key(TargetModel, e)

\* C19: for an instance none of whose expected markers belongs to another
\* instance, a check-mode run that follows a repair-mode run on it appends no
\* log.
C19_CheckAfterRepairIsClean ==
    \A n \in 1..Len(trace) :
        (/\ Rerun(n)
         /\ trace[n].repair
         /\ ~trace[n + 1].repair
         /\ trace[n + 1].pre = trace[n].post
         /\ \A i \in Expected(trace[n]) : ~OwnedByOther(trace[n].pre[i], trace[n].entity))
        => /\ LogsOfRun(trace[n + 1]) = {}
           /\ trace[n + 1].postLogs = 0
           /\ NoWrite(trace[n + 1])

C19_Witness ==
    /\ Len(trace) = 2
    /\ Rerun(1)
    /\ trace[1].repair
    /\ ~trace[2].repair
    /\ Len(trace[1].puts) = 1
    /\ \E i \in Expected(trace[1]) : ~trace[1].pre[i].present
    /\ \E i \in Expected(trace[1]) :
          trace[1].pre[i].present
          /\ trace[1].pre[i].instance = StrRef(Key(TargetModel, trace[1].entity))
    /\ actionLogs = {}

\* --------------------------------------------- transactions on the action record
\* _log_action and _finish each run inside transaction.atomic: the record is
\* read when the transaction is open, what was written is applied when it
\* commits, and the commit fails when the record's entity group was committed
\* to in between.
Finisher == 0
Writers == 1..MaxWriters
Procs == {Finisher} \cup Writers

\* A read that leaves the logs of the record out.
SnapshotWithoutLogs(type, status, logs) == [type |-> type, status |-> status, logs |-> {}]

\* The action record as a transaction reads it.
Snapshot(type, status, logs) == [type |-> type, status |-> status, logs |-> logs]

\* A commit that never checks for commits made in between.
CommitAllowedAlways(read, current) == TRUE

\* The commit of a transaction that read the record at version read goes
\* through only if no other commit came in between.
CommitAllowed(read, current) == read = current

\* A save that puts the status back to the default of the field.
SavedStatusDefault(snap) == "running"

\* action.save() in _log_action writes back the status it read.
SavedStatus(snap) == snap.status

\* The ActionLog row of the calls followed here.
LogRow(c) ==
    [action |-> ActionPk, log_type |-> c[1],
     instance_key |-> EncodeKey(EntityKey(c[2])),
     marker_key |-> MarkerKeyStr(MarkerKey(TargetModel, c[3]))]

NoTxn ==
    [pc |-> "idle", snap |-> Snapshot("none", "none", {}), version |-> 0, calls |-> 0,
     outcome |-> "none", appended |-> {}, conflicts |-> 0, finished |-> FALSE]

\* The calls of _log_action and _finish begun so far.
RECURSIVE CallsOf(_, _)
CallsOf(t, ps) ==
    IF ps = {} THEN 0
    ELSE LET p == CHOOSE q \in ps : TRUE IN t[p].calls + CallsOf(t, ps \ {p})
CallsMade(t) == CallsOf(t, DOMAIN t)

\* "action = UniqueAction.objects.get(pk=...)" at the start of _atomic and of
\* finish_the_action: the call opens its transaction and reads the record. A
\* task that raised is run again, a handler logs again.
TxnBegin(p) ==
    /\ txns[p].pc = "idle"
    /\ CallsMade(txns) < MaxCalls
    /\ txns' = [txns EXCEPT ![p] =
                  [@ EXCEPT !.pc = "open",
                            !.snap = Snapshot(actionType, actionStatus, actionLogs),
                            !.version = actionVersion,
                            !.calls = @ + 1,
                            !.outcome = "none"]]
    /\ UNCHANGED actionVersion
    /\ UNCHANGED actionVars
    /\ UNCHANGED storeVars
    /\ UNCHANGED jobVars
    /\ UNCHANGED scanVars

\* _log_action returns: either the cap test made it return with nothing
\* written, or the row it created and the record it saved are committed.
LogReturn(w, c) ==
    /\ txns[w].pc = "open"
    /\ LET snap == txns[w].snap
           before == ActionState(snap.logs, logRows)
           st == LogAction(before, c[1], EncodeKey(EntityKey(c[2])),
                           MarkerKeyStr(MarkerKey(TargetModel, c[3])))
       IN IF st = before
          THEN /\ txns' = [txns EXCEPT ![w] = [@ EXCEPT !.pc = "idle", !.outcome = "dropped"]]
               /\ UNCHANGED <<actionVersion, actionType, actionStatus, actionLogs, logRows>>
          ELSE /\ CommitAllowed(txns[w].version, actionVersion)
               /\ actionLogs' = st.logs
               /\ logRows' = st.rows
               /\ actionStatus' = SavedStatus(snap)
               /\ actionType' = snap.type
               /\ actionVersion' = actionVersion + 1
               /\ txns' = [txns EXCEPT ![w] =
                             [@ EXCEPT !.pc = "idle", !.outcome = "appended",
                                       !.appended = @ \cup (st.logs \ snap.logs)]]
    /\ UNCHANGED storeVars
    /\ UNCHANGED jobVars
    /\ UNCHANGED scanVars

\* The commit of a call that wrote fails: TransactionFailedError, nothing of
\* the transaction is stored.
TxnConflict(p) ==
    /\ txns[p].pc = "open"
    /\ p \in Writers => ~LogCapReached(Cardinality(txns[p].snap.logs))
    /\ ~CommitAllowed(txns[p].version, actionVersion)
    /\ txns' = [txns EXCEPT ![p] =
                  [@ EXCEPT !.pc = "idle", !.outcome = "conflict", !.conflicts = @ + 1]]
    /\ UNCHANGED actionVersion
    /\ UNCHANGED actionVars
    /\ UNCHANGED storeVars
    /\ UNCHANGED jobVars
    /\ UNCHANGED scanVars

\* _finish returns: the record is saved with status "done".
FinishReturn ==
    /\ txns[Finisher].pc = "open"
    /\ CommitAllowed(txns[Finisher].version, actionVersion)
    /\ actionStatus' = Finish(txns[Finisher].snap.status)
    /\ actionType' = txns[Finisher].snap.type
    /\ actionLogs' = txns[Finisher].snap.logs
    /\ actionVersion' = actionVersion + 1
    /\ txns' = [txns EXCEPT ![Finisher] =
                  [@ EXCEPT !.pc = "idle", !.outcome = "finished", !.finished = TRUE]]
    /\ UNCHANGED logRows
    /\ UNCHANGED storeVars
    /\ UNCHANGED jobVars
    /\ UNCHANGED scanVars

\* The logs an action may hold when the calls followed here begin: none, or
\* as many as leave room for the last appends below the cap.
StartingLogs == {0, MAX_ERRORS - 1}

InitTxn ==
    /\ actionType = "check"
    /\ actionStatus = "running"
    /\ \E n \in StartingLogs :
          /\ actionLogs = 1..n
          /\ logRows = [pk \in 1..n |-> LogRow(CHOOSE c \in LogCalls : TRUE)]
          /\ actionVersion = n
    /\ txns = [p \in Procs |-> NoTxn]
    /\ StoreIdle
    /\ JobUnderWay
    /\ ScanIdle

NextTxn ==
    \/ \E p \in Procs : TxnBegin(p)
    \/ \E w \in Writers, c \in LogCalls : LogReturn(w, c)
    \/ \E p \in Procs : TxnConflict(p)
    \/ FinishReturn

SpecTxn == InitTxn /\ [][NextTxn]_vars

\* C12: the status of an action starts as "running"; it changes only from
\* "running" to "done" and only by the commit of _finish, never goes back from
\* "done", and the action type never changes once the action exists.
C12_StatusOnlyRunningToDone ==
    /\ actionStatus = "running"
    /\ [][/\ actionStatus' # actionStatus =>
               /\ actionStatus = "running"
               /\ actionStatus' = "done"
               /\ txns[Finisher].pc = "open"
               /\ txns'[Finisher].outcome = "finished"
          /\ actionStatus = "done" => actionStatus' = "done"
          /\ actionType' = actionType]_vars

\* C12: the action is done and a _log_action call that began before has
\* since saved the record.
C12_Witness ==
    /\ actionStatus = "done"
    /\ \E w \in Writers :
          /\ txns[w].outcome = "appended"
          /\ txns[w].version >= txns[Finisher].version
          /\ txns[Finisher].finished

\* C15: no update of the action record is lost: once a call of _finish has
\* returned the status is "done", and every log a _log_action call has
\* appended is in the action's logs.
C15_NoLostUpdate ==
    /\ txns[Finisher].finished => actionStatus = "done"
    /\ \A w \in Writers : txns[w].appended \subseteq actionLogs

\* C15: both writers and the finisher have committed, and a call met a
\* conflict on the way.
C15_Witness ==
    /\ txns[Finisher].finished
    /\ \A w \in Writers : txns[w].appended # {}
    /\ \E p \in Procs : txns[p].conflicts > 0
    /\ \A p \in Procs : txns[p].pc = "idle"

\* C16 as stated: two _log_action calls that read the same log count and
\* both pass the cap test both append their log.
C16_BothAppend ==
    \A v, w \in Writers :
        /\ v # w
        /\ txns[v].pc = "idle" /\ txns[w].pc = "idle"
        /\ txns[v].calls > 0 /\ txns[w].calls > 0
        /\ txns[v].version = txns[w].version
        /\ ~LogCapReached(Cardinality(txns[v].snap.logs))
        /\ ~LogCapReached(Cardinality(txns[w].snap.logs))
        => txns[v].outcome = "appended" /\ txns[w].outcome = "appended"

\* C16: the cap test and the append are one transaction: of two _log_action
\* calls that read the record at the same version at most one appends, the
\* other ends in a conflict, and the action never holds more than
\* MAX_ERRORS + 1 logs, the most a single writer reaches.
C16_CapHoldsUnderConcurrency ==
    /\ Cardinality(actionLogs) <= MAX_ERRORS + 1
    /\ \A v, w \in Writers :
          /\ v # w
          /\ txns[v].pc = "idle" /\ txns[w].pc = "idle"
          /\ txns[v].calls > 0 /\ txns[w].calls > 0
          /\ txns[v].version = txns[w].version
          => ~(txns[v].outcome = "appended" /\ txns[w].outcome = "appended")

\* C16: two calls read the record with MAX_ERRORS logs, one appended the
\* last log, the other met a conflict.
C16_Witness ==
    \E v, w \in Writers :
        /\ v # w
        /\ txns[v].version = txns[w].version
        /\ Cardinality(txns[v].snap.logs) = MAX_ERRORS
        /\ Cardinality(txns[w].snap.logs) = MAX_ERRORS
        /\ txns[v].outcome = "appended" /\ txns[w].outcome = "conflict"
        /\ Cardinality(actionLogs) = MAX_ERRORS + 1

\* C20: the ActionLog rows whose action is A are exactly the members of
\* A.logs; a call that finds the cap reached returns normally and has created
\* no row and added no member.
C20_RowsAreTheLogs ==
    /\ actionLogs = {pk \in 1..Len(logRows) : logRows[pk].action = ActionPk}
    /\ \A w \in Writers :
          txns[w].outcome = "dropped" => LogCapReached(Cardinality(txns[w].snap.logs))

\* C20: a call returned with the cap reached after another appended a row.
C20_Witness ==
    \E v, w \in Writers :
        /\ v # w
        /\ txns[v].outcome = "dropped"
        /\ txns[w].appended # {}
        /\ Len(logRows) = MAX_ERRORS + 1

\* ------------------------------------------------------ mapping over a queryset
\* map_queryset: the queryset is split into shards, each shard is scanned in
\* key order with the handler applied to each entity and a cursor saved after
\* every batch, a shard task that fails is delivered again and resumes from
\* its cursor, and the finalize function runs when every shard is done.
ShardCounts == {1, 3, 10}
ScanShards == 1..shardCount

\* A split into n equal parts that leaves the remainder out.
PlanEqualParts(m, n) ==
    [s \in 1..n |-> {k \in 1..m : (s - 1) * (m \div n) < k /\ k <= s * (m \div n)}]

\* The keys of shard s of n over a domain of m entities in key order: shard s
\* holds the keys after the first (s - 1) * m \div n up to the first
\* s * m \div n; with m < n some shards hold none.
Plan(m, n) == [s \in 1..n |-> {k \in 1..m : ((s - 1) * m) \div n < k /\ k <= (s * m) \div n}]

ShardKeys(s) == Plan(domainSize, shardCount)[s]
\* The first key of shard s in key order; 0 for a shard without keys.
ShardStartKey(s) ==
    IF ShardKeys(s) = {} THEN 0
    ELSE CHOOSE k \in ShardKeys(s) : \A j \in ShardKeys(s) : k <= j

\* A resumption that ignores the cursor.
ResumeFromShardStart(cursor, start) == start

\* Where a shard task starts: at the shard's first key without a cursor, after
\* the cursor's last_processed_key with one.
ResumePos(cursor, start) == IF cursor = 0 THEN start ELSE cursor + 1

\* The cursor is saved after every BatchSize entities of a task.
CursorDue(pos, from) == (pos - from) % BatchSize = 0

\* The handler of the test: Counter.count = F('count') + 1.
Count(n) == n + 1

\* The queue hands out shard tasks in shard order, to at most Workers workers
\* at a time.
Deliverable(s, state) ==
    /\ state[s] = "pending"
    /\ \A t \in DOMAIN state : t < s => state[t] # "pending"
    /\ Cardinality({t \in DOMAIN state : state[t] = "running"}) < Workers

\* A shard task is delivered: it starts from the saved cursor, if any.
ScanStart(s) ==
    /\ Deliverable(s, scanState)
    /\ scanState' = [scanState EXCEPT ![s] = "running"]
    /\ resumeKey' = [resumeKey EXCEPT ![s] = scanCursor[s]]
    /\ scanPos' = [scanPos EXCEPT ![s] = ResumePos(scanCursor[s], ShardStartKey(s))]
    /\ lastKey' = [lastKey EXCEPT ![s] = 0]
    /\ UNCHANGED <<domainSize, shardCount, scanCursor, handled, counter, finalized, crashes>>
    /\ UNCHANGED actionVars
    /\ UNCHANGED storeVars
    /\ UNCHANGED jobVars
    /\ UNCHANGED txnVars

\* The handler is applied to the next entity of the shard.
ScanStep(s) ==
    /\ scanState[s] = "running"
    /\ scanPos[s] \in ShardKeys(s)
    /\ LET k == scanPos[s]
           from == ResumePos(resumeKey[s], ShardStartKey(s))
       IN /\ handled' = [handled EXCEPT ![k] = @ + 1]
          /\ counter' = Count(counter)
          /\ lastKey' = [lastKey EXCEPT ![s] = k]
          /\ scanPos' = [scanPos EXCEPT ![s] = k + 1]
          /\ scanCursor' = [scanCursor EXCEPT ![s] =
                              IF CursorDue(k + 1, from) THEN k ELSE @]
    /\ UNCHANGED <<domainSize, shardCount, scanState, resumeKey, finalized, crashes>>
    /\ UNCHANGED actionVars
    /\ UNCHANGED storeVars
    /\ UNCHANGED jobVars
    /\ UNCHANGED txnVars

\* The shard has no entity left; a shard without entities ends at once.
ScanFinish(s) ==
    /\ scanState[s] = "running"
    /\ scanPos[s] \notin ShardKeys(s)
    /\ scanState' = [scanState EXCEPT ![s] = "done"]
    /\ UNCHANGED <<domainSize, shardCount, scanPos, scanCursor, resumeKey, lastKey,
                   handled, counter, finalized, crashes>>
    /\ UNCHANGED actionVars
    /\ UNCHANGED storeVars
    /\ UNCHANGED jobVars
    /\ UNCHANGED txnVars

\* The shard task fails and goes back to the queue; the saved cursor remains.
ScanCrash(s) ==
    /\ scanState[s] = "running"
    /\ crashes < MaxCrashes
    /\ scanState' = [scanState EXCEPT ![s] = "pending"]
    /\ crashes' = crashes + 1
    /\ UNCHANGED <<domainSize, shardCount, scanPos, scanCursor, resumeKey, lastKey,
                   handled, counter, finalized>>
    /\ UNCHANGED actionVars
    /\ UNCHANGED storeVars
    /\ UNCHANGED jobVars
    /\ UNCHANGED txnVars

\* finalize_func runs once every shard is done.
Finalize ==
    /\ \A s \in ScanShards : scanState[s] = "done"
    /\ finalized = 0
    /\ finalized' = 1
    /\ UNCHANGED <<domainSize, shardCount, scanState, scanPos, scanCursor, resumeKey,
                   lastKey, handled, counter, crashes>>
    /\ UNCHANGED actionVars
    /\ UNCHANGED storeVars
    /\ UNCHANGED jobVars
    /\ UNCHANGED txnVars

InitScan ==
    /\ domainSize \in 0..MaxDomain
    /\ shardCount \in ShardCounts
    /\ scanState = [s \in ScanShards |-> "pending"]
    /\ scanPos = [s \in ScanShards |-> 0]
    /\ scanCursor = [s \in ScanShards |-> 0]
    /\ resumeKey = [s \in ScanShards |-> 0]
    /\ lastKey = [s \in ScanShards |-> 0]
    /\ handled = [k \in 1..domainSize |-> 0]
    /\ counter = 0
    /\ finalized = 0
    /\ crashes = 0
    /\ actionType = "none"
    /\ actionStatus = "none"
    /\ actionLogs = {}
    /\ logRows = <<>>
    /\ rootState = "none"
    /\ mapperState = "none"
    /\ callbackState = "none"
    /\ shardState = [s \in Shards |-> "none"]
    /\ shardAttempts = [s \in Shards |-> 0]
    /\ pipelinesStarted = 0
    /\ pipeline = NoPipeline
    /\ StoreIdle
    /\ TxnIdle

NextScan ==
    \/ \E s \in ScanShards : ScanStart(s)
    \/ \E s \in ScanShards : ScanStep(s)
    \/ \E s \in ScanShards : ScanFinish(s)
    \/ \E s \in ScanShards : ScanCrash(s)
    \/ Finalize

SpecScan == InitScan /\ [][NextScan]_vars

\* C11: for every domain of M entities and every shard count N, M < N
\* included, the shards are pairwise disjoint and cover exactly the M
\* entities; once finalize has run the handler has been applied to every
\* entity, and exactly once to each (the counter is M) when no task was
\* delivered again.
C11_ShardsCoverDomain ==
    /\ \A s, t \in ScanShards : s # t => ShardKeys(s) \cap ShardKeys(t) = {}
    /\ UNION {ShardKeys(s) : s \in ScanShards} = 1..domainSize
    /\ finalized = 1 =>
          /\ \A s \in ScanShards : scanState[s] = "done"
          /\ \A k \in 1..domainSize : handled[k] >= 1
          /\ crashes = 0 => counter = domainSize /\ \A k \in 1..domainSize : handled[k] = 1

\* C11: 5 entities mapped over 10 shards, finalize has run, the counter is 5.
C11_Witness ==
    /\ domainSize = 5
    /\ shardCount = 10
    /\ \E s \in ScanShards : ShardKeys(s) = {}
    /\ finalized = 1
    /\ counter = 5

\* C14: a shard task that resumes from a cursor handles no key below the
\* cursor's last_processed_key and skips no key of the shard: every key of
\* the shard before its position has been handled, and every key of a shard
\* that is done has been handled at least once.
C14_ResumeNeverSkipsNorGoesBack ==
    \A s \in ScanShards :
        /\ resumeKey[s] > 0 /\ lastKey[s] > 0 => lastKey[s] >= resumeKey[s]
        /\ scanState[s] = "running" =>
              \A k \in ShardKeys(s) : k < scanPos[s] => handled[k] >= 1
        /\ scanState[s] = "done" => \A k \in ShardKeys(s) : handled[k] >= 1

\* C14: a shard task failed after a saved cursor, resumed from it and ended;
\* a key after the cursor was handled by both tasks.
C14_Witness ==
    \E s \in ScanShards :
        /\ resumeKey[s] > 0
        /\ scanState[s] = "done"
        /\ \E k \in ShardKeys(s) : k > resumeKey[s] /\ handled[k] = 2
        /\ \A k \in ShardKeys(s) : k <= resumeKey[s] => handled[k] = 1

====
